---- MODULE Spec2Model ----
(***************************************************************************)
(* Model of the SidePanel component (src/unnamed/part_000): the tab-grid   *)
(* layout arithmetic (getTabWidth, getGridWidth, getNumGridColumns,        *)
(* getGridStyle), the tab grid it renders, and the open/closed state       *)
(* machine driven by clicks and by the activeTabIndex prop.                *)
(*                                                                         *)
(* Two specifications share the variables:                                 *)
(*   Spec        the mounted component: props, state, effect and clicks;   *)
(*   LayoutSpec  the layout functions called on inputs drawn from bounded  *)
(*               sets.                                                     *)
(*                                                                         *)
(* Numbers.  Pixel values are JavaScript numbers.  The width and column    *)
(* functions only ever produce integers from integer inputs.  getGridStyle *)
(* divides by 2, so its arithmetic is carried out in half pixels: a value  *)
(* v is represented by the integer 2 * v.  A remainder can be NaN, so the  *)
(* result of % is a record [nan, val].                                     *)
(***************************************************************************)
EXTENDS Integers, Sequences, FiniteSets, TLC

VARIABLES
  side,               \* prop: "left" or "right"
  tabs,               \* prop: sequence of tabs, each [disabled |-> BOOLEAN]
  expandedWidth,      \* prop: width of the expanded panel, in px
  activeTabIndexProp, \* prop: Null or <<index>>
  panelOpen,          \* useState: is the panel open
  activeTabIndex,     \* useState: index (0-based) of the active tab
  effectPending,      \* the effect on activeTabIndexProp has still to run
  lastEvent,          \* the handler that ran last: [kind, index]
  onOpenCalls,        \* number of onOpen() calls made by the last handler
  beforeLast,         \* history: the state (panelOpen, activeTabIndex) the last handler started in
  call,               \* LayoutSpec: the layout function called and its arguments
  result              \* LayoutSpec: <<>> before the call returns, <<value>> after

vars == <<side, tabs, expandedWidth, activeTabIndexProp, panelOpen, activeTabIndex,
          effectPending, lastEvent, onOpenCalls, beforeLast, call, result>>

panelVars == <<side, tabs, expandedWidth, activeTabIndexProp, panelOpen, activeTabIndex,
               effectPending, lastEvent, onOpenCalls, beforeLast>>

layoutVars == <<call, result>>

----------------------------------------------------------------------------
(* Bounds *)

MaxTabs == 5              \* numTabs of a layout call ranges over 1..MaxTabs
MaxWidth == 400           \* widths given to getGridWidth / getNumGridColumns: 0..MaxWidth
MaxStyleGridWidth == 124  \* gridWidth given to getGridStyle: 0..MaxStyleGridWidth
MaxExpandedWidth == 249  \* expandedWidth given to getGridStyle: 0..MaxExpandedWidth
MaxPanelTabs == 3         \* the mounted panel has 1..MaxPanelTabs tabs
PanelWidthStep == 62      \* the mounted panel's expandedWidth is a multiple of this
MaxPanelWidthSteps == 4   \* ... up to this many steps (4 * 62 = 248, the default)

Sides == {"left", "right"}

ExpandedWidths == {k * PanelWidthStep : k \in 0..MaxPanelWidthSteps}

----------------------------------------------------------------------------
(* Constants of the source *)

closeIconWidth == 30
gridHorizontalPadding == 10
tabSpacerWidth == 2

----------------------------------------------------------------------------
(* JavaScript arithmetic *)

Max(a, b) == IF a >= b THEN a ELSE b

Min(a, b) == IF a <= b THEN a ELSE b

Abs(a) == IF a < 0 THEN -a ELSE a

\* Math.floor(a / b) for integers a and b > 0.
MathFloorDiv(a, b) == a \div b

\* a % b for an integer a >= 0: NaN when b is 0, else the remainder by |b|.
JsRem(a, b) ==
  IF b = 0 THEN [nan |-> TRUE, val |-> 0]
  ELSE [nan |-> FALSE, val |-> a % Abs(b)]

\* r !== 0: NaN is not equal to anything.
StrictNotEqualZero(r) == r.nan \/ r.val # 0

\* An integer number of pixels, in half pixels.
HalfPx(n) == 2 * n

\* Math.floor of a value given in half pixels, in half pixels.
MathFloor(h) == 2 * (h \div 2)

\* v / 2 of a value given in half pixels whose value is an integer
\* (h is even): the result, in half pixels, is h \div 2 exactly.
HalveWhole(h) == h \div 2

----------------------------------------------------------------------------
(* Layout functions *)

getTabWidth(numTabs) == IF numTabs < 3 THEN 68 ELSE 40

getGridWidthUnclamped(numTabs, gridAvailableWidth) ==
  getTabWidth(numTabs) * numTabs + (numTabs - 1) * tabSpacerWidth

getGridWidth(numTabs, gridAvailableWidth) ==
  LET spacersWidth == (numTabs - 1) * tabSpacerWidth
      tabsWidth == getTabWidth(numTabs) * numTabs
  IN  IF gridAvailableWidth > tabsWidth + spacersWidth
      THEN tabsWidth + spacersWidth
      ELSE gridAvailableWidth

getNumGridColumnsNoExtraTab(numTabs, gridWidth) ==
  IF numTabs = 1 THEN 1
  ELSE MathFloorDiv(gridWidth, getTabWidth(numTabs) + tabSpacerWidth)

getNumGridColumns(numTabs, gridWidth) ==
  IF numTabs = 1 THEN 1
  ELSE
    LET tabWidth == getTabWidth(numTabs)
        numTabsWithOneSpacerEach == MathFloorDiv(gridWidth, tabWidth + tabSpacerWidth)
    IN  IF (numTabsWithOneSpacerEach + 1) * tabWidth
             + numTabsWithOneSpacerEach * tabSpacerWidth <= gridWidth
        THEN numTabsWithOneSpacerEach + 1
        ELSE numTabsWithOneSpacerEach

getGridStyleNoMax(sd, numTabs, gridWidth, expWidth) ==
  [position |-> "relative",
   inset |-> IF sd = "left" THEN "right" ELSE "left",
   relativePosition |->
     HalveWhole(MathFloor(HalfPx(expWidth) - HalfPx(gridWidth))) - HalfPx(closeIconWidth),
   width |-> gridWidth]

\* relativePosition is in half pixels; inset is the CSS property it is set on.
getGridStyle(sd, numTabs, gridWidth, expWidth) ==
  [position |-> "relative",
   inset |-> IF sd = "left" THEN "right" ELSE "left",
   relativePosition |->
     Max(0, HalveWhole(MathFloor(HalfPx(expWidth) - HalfPx(gridWidth)))
              - HalfPx(closeIconWidth)),
   width |-> gridWidth]

gridNumColsOfAvailableWidth(numTabs, gridAvailableWidth) ==
  getNumGridColumns(numTabs, gridAvailableWidth)

\* The column count of the grid the panel renders: getNumGridColumns applied
\* to the grid width of getGridWidth.
gridNumCols(numTabs, gridAvailableWidth) ==
  getNumGridColumns(numTabs, getGridWidth(numTabs, gridAvailableWidth))

----------------------------------------------------------------------------
(* LayoutSpec: the layout functions on drawn inputs *)

NoCall == [fn |-> "none", side |-> "left", numTabs |-> 0, width |-> 0, expandedWidth |-> 0]

WidthCall(f, n, w) ==
  [fn |-> f, side |-> "left", numTabs |-> n, width |-> w, expandedWidth |-> 0]

StyleCall(s, n, w, e) ==
  [fn |-> "getGridStyle", side |-> s, numTabs |-> n, width |-> w, expandedWidth |-> e]

Unmounted ==
  /\ side = "left"
  /\ tabs = <<>>
  /\ expandedWidth = 0
  /\ activeTabIndexProp = <<>>
  /\ panelOpen = FALSE
  /\ activeTabIndex = 0
  /\ effectPending = FALSE
  /\ lastEvent = [kind |-> "none", index |-> 0]
  /\ onOpenCalls = 0
  /\ beforeLast = [panelOpen |-> FALSE, activeTabIndex |-> 0]

LayoutInit ==
  /\ Unmounted
  /\ \/ \E f \in {"getGridWidth", "getNumGridColumns", "gridNumCols"},
            n \in 1..MaxTabs, w \in 0..MaxWidth :
          call = WidthCall(f, n, w)
     \/ \E s \in Sides, n \in 1..MaxTabs,
            w \in 0..MaxStyleGridWidth, e \in 0..MaxExpandedWidth :
          call = StyleCall(s, n, w, e)
  /\ result = <<>>

CallGetGridWidth ==
  /\ call.fn = "getGridWidth"
  /\ result = <<>>
  /\ result' = <<getGridWidth(call.numTabs, call.width)>>
  /\ UNCHANGED <<call, panelVars>>

CallGetNumGridColumns ==
  /\ call.fn = "getNumGridColumns"
  /\ result = <<>>
  /\ result' = <<getNumGridColumns(call.numTabs, call.width)>>
  /\ UNCHANGED <<call, panelVars>>

CallGridNumCols ==
  /\ call.fn = "gridNumCols"
  /\ result = <<>>
  /\ result' = <<gridNumCols(call.numTabs, call.width)>>
  /\ UNCHANGED <<call, panelVars>>

CallGetGridStyle ==
  /\ call.fn = "getGridStyle"
  /\ result = <<>>
  /\ result' = <<getGridStyle(call.side, call.numTabs, call.width, call.expandedWidth)>>
  /\ UNCHANGED <<call, panelVars>>

LayoutNext ==
  \/ CallGetGridWidth
  \/ CallGetNumGridColumns
  \/ CallGridNumCols
  \/ CallGetGridStyle

LayoutSpec == LayoutInit /\ [][LayoutNext]_vars

Returned(fn) == call.fn = fn /\ result # <<>>

----------------------------------------------------------------------------
(* Claims about the layout functions, checked under LayoutSpec *)

\* C1 (as claimed): for every numTabs >= 1 and gridWidth >= 0,
\* getNumGridColumns returns at least 1; it never returns 0.
C1_ColumnCountAtLeastOne ==
  Returned("getNumGridColumns") => result[1] >= 1

\* C2: for numTabs >= 2 and gridWidth >= 0, with w the tab width and
\* k = floor(gridWidth / (w + 2)), getNumGridColumns returns k + 1 if k + 1
\* tabs with k spacers fit and k otherwise; the value c returned is the
\* packing maximum: c tabs with c - 1 spacers fit in gridWidth (when c >= 1)
\* and c + 1 tabs with c spacers do not.  (5, 208) gives 5, (5, 150) gives 3.
C2_ColumnCountIsPackingMaximum ==
  (Returned("getNumGridColumns") /\ call.numTabs >= 2) =>
    LET w == getTabWidth(call.numTabs)
        g == call.width
        k == g \div (w + 2)
        c == result[1]
    IN  /\ c = IF (k + 1) * w + k * 2 <= g THEN k + 1 ELSE k
        /\ (c >= 1) => (c * w + (c - 1) * 2 <= g)
        /\ (c + 1) * w + c * 2 > g
        /\ (call.numTabs = 5 /\ g = 208) => c = 5
        /\ (call.numTabs = 5 /\ g = 150) => c = 3

\* C2 witness: a call that returned k + 1 columns, more than one, with room
\* left over in the row.
C2_Witness ==
  /\ Returned("getNumGridColumns")
  /\ call.numTabs = 5
  /\ call.width = 150
  /\ result[1] = 3

\* C3: for numTabs >= 1 and availableWidth >= 0, getGridWidth returns
\* min(tabWidth * numTabs + (numTabs - 1) * 2, availableWidth), which never
\* exceeds availableWidth.
C3_GridWidthIsMin ==
  Returned("getGridWidth") =>
    /\ result[1] = Min(getTabWidth(call.numTabs) * call.numTabs + (call.numTabs - 1) * 2,
                       call.width)
    /\ result[1] <= call.width

\* C3 witness: a call where the tabs do not fit and the width is clamped.
C3_Witness ==
  /\ Returned("getGridWidth")
  /\ call.numTabs = 5
  /\ call.width = 150
  /\ result[1] = 150

\* C4 (as claimed): the offset of getGridStyle is the integer
\* max(0, floor((expandedWidth - gridWidth) / 2) - 30), here in half pixels.
C4_OffsetIsFlooredInteger ==
  Returned("getGridStyle") =>
    result[1].relativePosition =
      HalfPx(Max(0, ((call.expandedWidth - call.width) \div 2) - 30))

\* C5: for expandedWidth >= 0 and gridWidth >= 0, also with gridWidth equal
\* to or greater than expandedWidth, the offset is >= 0 on either side.
C5_OffsetNonNegative ==
  Returned("getGridStyle") => result[1].relativePosition >= 0

\* C5 witness: a right-side call with gridWidth greater than expandedWidth,
\* where the difference is negative and the offset is 0.
C5_Witness ==
  /\ Returned("getGridStyle")
  /\ call.side = "right"
  /\ result[1].inset = "left"
  /\ call.width > call.expandedWidth
  /\ result[1].relativePosition = 0

\* C8: for numTabs >= 1 and availableWidth >= 0, the column count of the grid
\* width is at most numTabs, and it is numTabs when the natural width
\* tabWidth * numTabs + (numTabs - 1) * 2 is <= availableWidth.  5 tabs with
\* availableWidth 400 give 5 columns.
C8_ColumnsAtMostTabs ==
  Returned("gridNumCols") =>
    LET n == call.numTabs
        natural == getTabWidth(n) * n + (n - 1) * 2
    IN  /\ result[1] <= n
        /\ (natural <= call.width) => result[1] = n
        /\ (n = 5 /\ call.width = 400) => result[1] = 5

\* C8 witness: the tabs fit exactly (natural width = availableWidth) and all
\* of them are in one row.
C8_Witness ==
  /\ Returned("gridNumCols")
  /\ call.numTabs = 5
  /\ call.width = 208
  /\ result[1] = 5

----------------------------------------------------------------------------
(* The mounted SidePanel *)

Null == <<>>

TabLists == UNION {[1..n -> [disabled : BOOLEAN]] : n \in 1..MaxPanelTabs}

TabIndexes == 0..(Len(tabs) - 1)

\* tabs[index] of the 0-based JavaScript array.
TabAt(index) == tabs[index + 1]

\* The argument of updatePanelOpen: a boolean, or the updater prev => !prev.
BoolArg(b) == [isUpdater |-> FALSE, value |-> b]

ToggleArg == [isUpdater |-> TRUE, value |-> FALSE]

\* if (arg): a function is truthy, a boolean is truthy when true.
Truthy(arg) == arg.isUpdater \/ arg.value

\* setPanelOpen(arg): React applies an updater to the previous state.
setPanelOpenTruthy(arg) == panelOpen' = Truthy(arg)

setPanelOpen(arg) == panelOpen' = IF arg.isUpdater THEN ~panelOpen ELSE arg.value

updatePanelOpen(arg) ==
  /\ setPanelOpen(arg)
  /\ onOpenCalls' = IF Truthy(arg) THEN 1 ELSE 0

updateActiveTabIndexNoReturn(index) ==
  /\ activeTabIndex' = IF index = Null THEN 0 ELSE index[1]
  /\ updatePanelOpen(BoolArg(TRUE))

updateActiveTabIndex(index) ==
  IF index = Null
  THEN /\ updatePanelOpen(BoolArg(FALSE))
       /\ UNCHANGED activeTabIndex
  ELSE /\ activeTabIndex' = index[1]
       /\ updatePanelOpen(BoolArg(TRUE))

onTabClickIgnoringDisabled(index) == updateActiveTabIndex(<<index>>)

\* onClick of a tab, in the grid and in the collapsed icon list:
\* disabled ? null : updateActiveTabIndex(index)
onTabClick(index) ==
  IF TabAt(index).disabled
  THEN UNCHANGED <<panelOpen, activeTabIndex>> /\ onOpenCalls' = 0
  ELSE updateActiveTabIndex(<<index>>)

props == <<side, tabs, expandedWidth, activeTabIndexProp>>

\* What the render computes from the props.
gridAvailableWidth == expandedWidth - closeIconWidth - gridHorizontalPadding

gridWidth == getGridWidth(Len(tabs), gridAvailableWidth)

numCols == gridNumCols(Len(tabs), gridAvailableWidth)

\* getTabGridComponent: one fragment per tab, a spacer first when
\* tabIndex % numCols !== 0, then the tab's cell.
getTabGridComponent ==
  [style |-> getGridStyle(side, Len(tabs), gridWidth, expandedWidth),
   numCols |-> numCols,
   fragments |->
     [i \in 1..Len(tabs) |->
        [spacer |-> StrictNotEqualZero(JsRem(i - 1, numCols)),
         tabIndex |-> i - 1,
         disabled |-> tabs[i].disabled,
         active |-> (i - 1 = activeTabIndex)]]]

\* The panel shows the tab grid when it is open and has more than one tab.
TabGridShown == panelOpen /\ Len(tabs) # 1

\* The state of the component: the values of its two useState hooks.
StateNow == [panelOpen |-> panelOpen, activeTabIndex |-> activeTabIndex]

\* <ActiveComponent />: the content of tabs[activeTabIndex], rendered when the
\* panel is open; Null when nothing is rendered.  A content is named by the
\* index of its tab.
ActiveComponentShown(state) ==
  IF state.panelOpen /\ state.activeTabIndex \in TabIndexes
  THEN <<state.activeTabIndex>>
  ELSE Null

Init ==
  /\ side \in Sides
  /\ tabs \in TabLists
  /\ expandedWidth \in ExpandedWidths
  /\ activeTabIndexProp \in {Null} \cup {<<i>> : i \in 0..(Len(tabs) - 1)}
  /\ panelOpen = (activeTabIndexProp # Null)
  /\ activeTabIndex = 0
  /\ effectPending = TRUE
  /\ lastEvent = [kind |-> "mount", index |-> 0]
  /\ onOpenCalls = 0
  /\ beforeLast = StateNow
  /\ call = NoCall
  /\ result = <<>>

\* useEffect(() => updateActiveTabIndex(activeTabIndexProp), [activeTabIndexProp, ...])
RunEffect ==
  /\ effectPending
  /\ effectPending' = FALSE
  /\ updateActiveTabIndex(activeTabIndexProp)
  /\ lastEvent' = [kind |-> "effect", index |-> 0]
  /\ beforeLast' = StateNow
  /\ UNCHANGED <<props, layoutVars>>

\* The parent renders the panel with another activeTabIndex.
ChangeActiveTabIndexProp ==
  /\ ~effectPending
  /\ \E p \in {Null} \cup {<<i>> : i \in TabIndexes} :
       /\ p # activeTabIndexProp
       /\ activeTabIndexProp' = p
  /\ effectPending' = TRUE
  /\ lastEvent' = [kind |-> "propChange", index |-> 0]
  /\ beforeLast' = StateNow
  /\ onOpenCalls' = 0
  /\ UNCHANGED <<side, tabs, expandedWidth, panelOpen, activeTabIndex, layoutVars>>

\* Click on the header of the collapsed panel.
ClickHeader ==
  /\ ~effectPending
  /\ ~panelOpen
  /\ updatePanelOpen(ToggleArg)
  /\ lastEvent' = [kind |-> "headerClick", index |-> 0]
  /\ beforeLast' = StateNow
  /\ UNCHANGED <<props, activeTabIndex, effectPending, layoutVars>>

\* Click on a tab's icon in the collapsed panel.
ClickIcon ==
  /\ ~effectPending
  /\ ~panelOpen
  /\ \E index \in TabIndexes :
       /\ onTabClick(index)
       /\ lastEvent' = [kind |-> "iconClick", index |-> index]
       /\ beforeLast' = StateNow
  /\ UNCHANGED <<props, effectPending, layoutVars>>

\* Click on the close icon of the open panel.
ClickCloseIcon ==
  /\ ~effectPending
  /\ panelOpen
  /\ updatePanelOpen(ToggleArg)
  /\ lastEvent' = [kind |-> "closeIconClick", index |-> 0]
  /\ beforeLast' = StateNow
  /\ UNCHANGED <<props, activeTabIndex, effectPending, layoutVars>>

\* Click on the header of an open panel with one tab.
ClickOneTab ==
  /\ ~effectPending
  /\ panelOpen
  /\ Len(tabs) = 1
  /\ updatePanelOpen(ToggleArg)
  /\ lastEvent' = [kind |-> "oneTabClick", index |-> 0]
  /\ beforeLast' = StateNow
  /\ UNCHANGED <<props, activeTabIndex, effectPending, layoutVars>>

\* Click on a tab of the open panel's tab grid.
ClickTab ==
  /\ ~effectPending
  /\ TabGridShown
  /\ \E index \in TabIndexes :
       /\ onTabClick(index)
       /\ lastEvent' = [kind |-> "tabClick", index |-> index]
       /\ beforeLast' = StateNow
  /\ UNCHANGED <<props, effectPending, layoutVars>>

Next ==
  \/ RunEffect
  \/ ChangeActiveTabIndexProp
  \/ ClickHeader
  \/ ClickIcon
  \/ ClickCloseIcon
  \/ ClickOneTab
  \/ ClickTab

Spec == Init /\ [][Next]_vars

----------------------------------------------------------------------------
(* Claims about the mounted panel, checked under Spec *)

\* The tab at index i starts a row of a grid of c columns.
FirstTabOfRow(i, c) == i = 0 \/ (c # 0 /\ i % Abs(c) = 0)

\* C6 (as claimed): in the tab grid rendered for a tab list of length >= 2
\* and any expandedWidth, a spacer precedes the tab at index i if and only if
\* i is not the first tab of a row; the tab at index 0 is never preceded by
\* a spacer, also when the grid is narrower than one tab.
C6_SpacerIffNotFirstOfRow ==
  (TabGridShown /\ Len(tabs) >= 2) =>
    \A i \in TabIndexes :
      getTabGridComponent.fragments[i + 1].spacer
        <=> ~FirstTabOfRow(i, getTabGridComponent.numCols)

\* C7: a click on a disabled tab, in the open tab grid or in the collapsed
\* icon list, leaves activeTabIndex and panelOpen unchanged and does not
\* invoke onOpen; the tab still has its cell in the grid, and the grid width
\* and column count are computed from the number of all tabs.
C7_DisabledTabClickChangesNothing ==
  [][(/\ lastEvent'.kind \in {"tabClick", "iconClick"}
      /\ TabAt(lastEvent'.index).disabled)
     => /\ panelOpen' = panelOpen
        /\ activeTabIndex' = activeTabIndex
        /\ onOpenCalls' = 0
        /\ Len(getTabGridComponent'.fragments) = Len(tabs)
        /\ getTabGridComponent'.fragments[lastEvent'.index + 1].tabIndex = lastEvent'.index
        /\ getTabGridComponent'.fragments[lastEvent'.index + 1].disabled
        /\ getTabGridComponent'.style.width
             = getGridWidth(Len(tabs), expandedWidth - 30 - 10)
        /\ getTabGridComponent'.numCols
             = getNumGridColumns(Len(tabs), getTabGridComponent'.style.width)]_vars

\* C7 witness: the last click was on a disabled tab of the open grid, which
\* is not the active tab.
C7_Witness ==
  /\ lastEvent.kind = "tabClick"
  /\ TabAt(lastEvent.index).disabled
  /\ TabGridShown
  /\ activeTabIndex # lastEvent.index
  /\ onOpenCalls = 0

\* C9: when the effect for a value of the activeTabIndex prop has run, a null
\* prop leaves the panel closed and activeTabIndex as it was, and an index i
\* leaves the panel open with activeTabIndex = i; a panel mounted with a null
\* prop starts closed.
C9_PropDrivesPanel ==
  [][/\ (lastEvent.kind = "mount" /\ activeTabIndexProp = Null) => ~panelOpen
     /\ (effectPending /\ ~effectPending') =>
          IF activeTabIndexProp = Null
          THEN ~panelOpen' /\ activeTabIndex' = activeTabIndex
          ELSE panelOpen' /\ activeTabIndex' = activeTabIndexProp[1]]_vars

\* C9 witness: the effect has run for a null prop set after the mount; the
\* panel is closed and keeps an active tab other than the initial one.
C9_Witness ==
  /\ lastEvent.kind = "effect"
  /\ activeTabIndexProp = Null
  /\ ~panelOpen
  /\ activeTabIndex # 0

\* C10 (as claimed): an update that leaves the panel closed never invokes
\* onOpen, and an update that opens the panel invokes onOpen exactly once.
C10_OnOpenOnlyWhenOpening ==
  [][/\ (onOpenCalls' >= 1) => panelOpen'
     /\ (~panelOpen /\ panelOpen') => onOpenCalls' = 1]_vars

\* The handlers that toggle the panel: the collapsed header, the close icon
\* and the header of a one-tab panel.
ToggleKinds == {"headerClick", "closeIconClick", "oneTabClick"}

\* C11: a toggle (close icon, collapsed header) flips panelOpen and leaves
\* activeTabIndex unchanged; two consecutive toggles return to the pair
\* (panelOpen, activeTabIndex) they started from, and the active tab content
\* shown is the same as before them.
C11_TwoTogglesReturn ==
  [][/\ (lastEvent'.kind \in ToggleKinds) =>
          /\ panelOpen' = ~panelOpen
          /\ activeTabIndex' = activeTabIndex
     /\ (lastEvent.kind \in ToggleKinds /\ lastEvent'.kind \in ToggleKinds) =>
          /\ StateNow' = beforeLast
          /\ ActiveComponentShown(StateNow') = ActiveComponentShown(beforeLast)]_vars

\* C11 witness: a closed panel was reopened with the header and shows the
\* content of its active tab, which is not the initial one.
C11_Witness ==
  /\ lastEvent.kind = "headerClick"
  /\ beforeLast = [panelOpen |-> FALSE, activeTabIndex |-> activeTabIndex]
  /\ panelOpen
  /\ activeTabIndex # 0
  /\ ActiveComponentShown(StateNow) = <<activeTabIndex>>

====
